---- MODULE Spec2Model ----
(***************************************************************************)
(* A model of model/KGAT.py: the KGAT recommender's construction, the      *)
(* dispatch of forward over its four modes, the relation loop of           *)
(* compute_attention, the layer loop of cf_embedding, and the              *)
(* similarity-weighted fusion (calk_sim, get_user_kg_embed,                *)
(* get_user_cf_embed, get_item_embed).                                     *)
(*                                                                         *)
(* Tensors are modelled with one feature per row.  Real numbers are exact  *)
(* fractions <<n, d>>; a float that the code can turn into NaN is a record *)
(* that says so.                                                           *)
(***************************************************************************)
EXTENDS Integers, Sequences, FiniteSets, TLC

VARIABLES
    pc,                 \* "new" | "failed" | "ready" | "returned"
    aggregation_type,   \* self.aggregation_type
    n_layers,           \* self.n_layers = len(eval(args.conv_dim_list))
    n_relations,        \* self.n_relations
    aggregator_layers,  \* self.aggregator_layers: the Aggregators' types
    W_r,                \* self.W_r: <<>> while unset, <<i>> for W_R[i]
    mode,               \* the mode of the last forward call, "none" before
    g,                  \* the graph handed to the last calc_att call
    att,                \* edge -> the score att_score stored, of that call
    scored,             \* edge -> how often att_score scored it, that call
    paths,              \* the reduction path of each layer, last cf call
    result,             \* what the last forward call returned or raised
    fop,                \* the fusion routine called last, "none" before
    fargs,              \* its arguments
    fres                \* what it returned or raised

vars == <<pc, aggregation_type, n_layers, n_relations, aggregator_layers,
          W_r, mode, g, att, scored, paths, result, fop, fargs, fres>>

modelVars == <<pc, aggregation_type, n_layers, n_relations,
               aggregator_layers, W_r, mode, g, att, scored, paths, result>>

fusionVars == <<fop, fargs, fres>>

----------------------------------------------------------------------------
(* Bounds of the model.                                                    *)

MaxLayers == 2
MaxRel == 2
MaxEdges == 2

Nodes == {0, 1}

SchemeNames == {"gcn", "graphsage", "bi-interaction", "mean"}

\* Edge labels: 0..MaxRel, so that a graph may carry a label that is not
\* below the model's n_relations.
Labels == 0 .. MaxRel

Edge == [src : Nodes, dst : Nodes, type : Labels]

Graphs == UNION {[1 .. n -> Edge] : n \in 0 .. MaxEdges}

----------------------------------------------------------------------------
(* Construction: Aggregator.__init__ and KGAT.__init__.                    *)

\* Aggregator.__init__: the three schemes build their linear maps, any
\* other name raises.
AggregatorInit(aggregator_type) ==
    IF aggregator_type \in {"gcn", "graphsage", "bi-interaction"}
    THEN [ok |-> TRUE, type |-> aggregator_type]
    ELSE [ok |-> FALSE, type |-> "NotImplementedError"]

\* The loop of KGAT.__init__ that appends one Aggregator per layer; it
\* stops at the first constructor that raises.
RECURSIVE BuildLayers(_, _, _)
BuildLayers(k, n, type) ==
    IF k = n THEN [ok |-> TRUE, layers |-> <<>>]
    ELSE LET a == AggregatorInit(type) IN
         IF ~a.ok THEN [ok |-> FALSE, layers |-> <<>>]
         ELSE LET rest == BuildLayers(k + 1, n, type) IN
              [ok |-> rest.ok, layers |-> <<a.type>> \o rest.layers]

Construct(type, layers, rels) ==
    /\ pc = "new"
    /\ aggregation_type' = type
    /\ n_layers' = layers
    /\ n_relations' = rels
    /\ LET b == BuildLayers(0, layers, type) IN
         /\ pc' = IF b.ok THEN "ready" ELSE "failed"
         /\ aggregator_layers' = b.layers
         /\ result' = [kind |-> IF b.ok THEN "none" ELSE "NotImplementedError"]
    /\ UNCHANGED <<W_r, mode, g, att, scored, paths, fusionVars>>

----------------------------------------------------------------------------
(* compute_attention: the relation loop and the softmax.                   *)

\* self.W_r is <<>> until compute_attention assigns it, then <<i>> for the
\* slice W_R[i].
NoProjection == <<>>

\* g.filter_edges(lambda edge: edge.data['type'] == i)
filter_edges(graph, i) == {e \in DOMAIN graph : graph[e].type = i}

\* att_score on one edge: the operands Equation (4) reads.  W is the
\* projection self.W_r holds at the call, r the row of relation_embed
\* (the edge's own label), t and h the rows of entity_embed.
att_score(edge, cur_W_r) ==
    [W |-> cur_W_r, r |-> edge.type, t |-> edge.src, h |-> edge.dst]

\* The pass with lines 144 and 145 swapped: the edges of label i are scored
\* with whatever self.W_r held before, and only then is W_r reassigned.
RelationIterStale(st, i, graph, created_on_empty) ==
    LET edge_idxs == filter_edges(graph, i)
    IN  [W_r     |-> <<i>>,
         att     |-> [e \in DOMAIN graph |->
                        IF e \in edge_idxs
                        THEN <<att_score(graph[e], st.W_r)>>
                        ELSE st.att[e]],
         scored  |-> [e \in DOMAIN graph |->
                        IF e \in edge_idxs THEN st.scored[e] + 1
                        ELSE st.scored[e]],
         has_att |-> st.has_att \/ edge_idxs # {} \/ created_on_empty]

\* One pass of the loop of compute_attention (lines 143-145): select the
\* edges of label i, point self.W_r at W_R[i], score the selected edges.
\* An edge column exists once apply_edges has written a row; whether a call
\* on no edge creates it is the graph library's affair: created_on_empty.
RelationIter(st, i, graph, created_on_empty) ==
    LET edge_idxs == filter_edges(graph, i)
        cur == <<i>>
    IN  [W_r     |-> cur,
         att     |-> [e \in DOMAIN graph |->
                        IF e \in edge_idxs
                        THEN <<att_score(graph[e], cur)>>
                        ELSE st.att[e]],
         scored  |-> [e \in DOMAIN graph |->
                        IF e \in edge_idxs THEN st.scored[e] + 1
                        ELSE st.scored[e]],
         has_att |-> st.has_att \/ edge_idxs # {} \/ created_on_empty]

RECURSIVE RelationLoop(_, _, _, _, _)
RelationLoop(st, i, n, graph, created_on_empty) ==
    IF i >= n THEN st
    ELSE RelationLoop(RelationIter(st, i, graph, created_on_empty),
                      i + 1, n, graph, created_on_empty)

RECURSIVE SumOver(_, _)
SumOver(S, f) ==
    IF S = {} THEN 0
    ELSE LET x == CHOOSE y \in S : TRUE IN f[x] + SumOver(S \ {x}, f)

\* exp of a stored score, a positive real: a positive integer fixed by the
\* operands of the score.  A row apply_edges never wrote holds 0, exp 1.
ExpAtt(a) ==
    IF a = <<>> THEN 1
    ELSE 2 + a[1].t + 2 * a[1].h + 3 * a[1].r
           + (IF a[1].W = NoProjection THEN 0 ELSE 5 * a[1].W[1])

\* utility.helper.edge_softmax_fix: exp of every score, divided by the sum
\* of the exps over the edges into the same destination node.  The weight
\* is the fraction <<numerator, denominator>>.
edge_softmax_fix(graph, col) ==
    LET ex == [e \in DOMAIN graph |-> ExpAtt(col[e])] IN
    [e \in DOMAIN graph |->
        <<ex[e],
          SumOver({d \in DOMAIN graph : graph[d].dst = graph[e].dst}, ex)>>]

\* compute_attention without line 148: the raw exps are returned as weights.
compute_attention_unnormalised(graph, start_W_r, n, created_on_empty) ==
    LET st0 == [W_r     |-> start_W_r,
                att     |-> [e \in DOMAIN graph |-> <<>>],
                scored  |-> [e \in DOMAIN graph |-> 0],
                has_att |-> FALSE]
        st  == RelationLoop(st0, 0, n, graph, created_on_empty)
    IN  [W_r    |-> st.W_r,
         att    |-> st.att,
         scored |-> st.scored,
         result |-> IF st.has_att
                    THEN [kind |-> "att",
                          val  |-> [e \in DOMAIN graph |->
                                      <<ExpAtt(st.att[e]), 1>>]]
                    ELSE [kind |-> "KeyError"]]

\* compute_attention(g), from the value start_W_r of self.W_r.
compute_attention(graph, start_W_r, n, created_on_empty) ==
    LET st0 == [W_r     |-> start_W_r,
                att     |-> [e \in DOMAIN graph |-> <<>>],
                scored  |-> [e \in DOMAIN graph |-> 0],
                has_att |-> FALSE]
        st  == RelationLoop(st0, 0, n, graph, created_on_empty)
    IN  [W_r    |-> st.W_r,
         att    |-> st.att,
         scored |-> st.scored,
         result |-> IF st.has_att
                    THEN [kind |-> "att",
                          val  |-> edge_softmax_fix(graph, st.att)]
                    ELSE [kind |-> "KeyError"]]

----------------------------------------------------------------------------
(* cf_embedding: the layer loop, and the reduction each layer uses.        *)

\* Aggregator.forward with the test of line 47 dropped.
AggregatorReduceAlwaysFast(m) == "fast"

\* Aggregator.forward, lines 47-50: the reduce function of update_all.
AggregatorReduce(m) ==
    IF m = "predict" THEN "deterministic" ELSE "fast"

\* cf_embedding, lines 188-191: every layer is called with the mode of the
\* call.
cf_embedding(m, layers) ==
    [k \in 1 .. Len(layers) |-> AggregatorReduce(m)]

----------------------------------------------------------------------------
(* forward: one action per branch of the dispatch, lines 307-314.          *)

NoGraph == <<>>

ForwardCalcAtt(graph, created_on_empty) ==
    /\ pc = "ready"
    /\ pc' = "returned"
    /\ LET r == compute_attention(graph, W_r, n_relations, created_on_empty)
       IN  /\ W_r' = r.W_r
           /\ att' = r.att
           /\ scored' = r.scored
           /\ result' = r.result
    /\ mode' = "calc_att"
    /\ g' = graph
    /\ paths' = <<>>
    /\ UNCHANGED <<aggregation_type, n_layers, n_relations,
                   aggregator_layers, fusionVars>>

ForwardCalcCfLoss ==
    /\ pc = "ready"
    /\ pc' = "returned"
    /\ mode' = "calc_cf_loss"
    /\ paths' = cf_embedding("calc_cf_loss", aggregator_layers)
    /\ result' = [kind |-> "loss"]
    /\ g' = NoGraph /\ att' = <<>> /\ scored' = <<>>
    /\ UNCHANGED <<aggregation_type, n_layers, n_relations,
                   aggregator_layers, W_r, fusionVars>>

\* calc_kg_loss with line 160 writing the field: self.W_r = self.W_R[r],
\* for a batch whose relations are all 0.
calc_kg_loss_W_r_field(cur_W_r) == <<0>>

\* calc_kg_loss: its W_r (line 160) is a local, not the field self.W_r.
calc_kg_loss_W_r(cur_W_r) == cur_W_r

ForwardCalcKgLoss ==
    /\ pc = "ready"
    /\ pc' = "returned"
    /\ mode' = "calc_kg_loss"
    /\ W_r' = calc_kg_loss_W_r(W_r)
    /\ paths' = <<>>
    /\ result' = [kind |-> "loss"]
    /\ g' = NoGraph /\ att' = <<>> /\ scored' = <<>>
    /\ UNCHANGED <<aggregation_type, n_layers, n_relations,
                   aggregator_layers, fusionVars>>

ForwardPredict ==
    /\ pc = "ready"
    /\ pc' = "returned"
    /\ mode' = "predict"
    /\ paths' = cf_embedding("predict", aggregator_layers)
    /\ result' = [kind |-> "cf_score"]
    /\ g' = NoGraph /\ att' = <<>> /\ scored' = <<>>
    /\ UNCHANGED <<aggregation_type, n_layers, n_relations,
                   aggregator_layers, W_r, fusionVars>>

\* Any other mode falls through the four tests and returns None.
ForwardOther ==
    /\ pc = "ready"
    /\ pc' = "returned"
    /\ mode' = "other"
    /\ paths' = <<>>
    /\ result' = [kind |-> "None"]
    /\ g' = NoGraph /\ att' = <<>> /\ scored' = <<>>
    /\ UNCHANGED <<aggregation_type, n_layers, n_relations,
                   aggregator_layers, W_r, fusionVars>>

----------------------------------------------------------------------------
(* The similarity-weighted fusion: calk_sim, get_user_kg_embed,            *)
(* get_user_cf_embed, get_item_embed.                                      *)

MaxList == 2
MaxNbrs == 2
MaxBatch == 2

Users == {0, 1}
Items == {0, 1}

SeqsUpTo(S, n) == UNION {[1 .. k -> S] : k \in 0 .. n}

\* The dictionaries id -> list of ids: any set of keys, any lists.
Dicts(Keys, Vals, n) == UNION {[D -> SeqsUpTo(Vals, n)] : D \in SUBSET Keys}

\* The lists without repetition, in increasing order.
IncreasingLists(S) ==
    {s \in SeqsUpTo(S, Cardinality(S)) :
        \A i, j \in DOMAIN s : i < j => s[i] < s[j]}

\* The dictionaries id -> increasing list of ids, any set of keys.
SetDicts(Keys, Vals) ==
    UNION {[D -> IncreasingLists(Vals)] : D \in SUBSET Keys}

\* The embedding tables handed to the fusion: one feature per row.
EmbedTables == {[i \in Items |-> 2 * i + 1], [i \in Items |-> 2 - 3 * i]}

RECURSIVE Gcd(_, _)
Gcd(a, b) == IF b = 0 THEN a ELSE Gcd(b, a % b)

Abs(x) == IF x < 0 THEN 0 - x ELSE x

\* The fraction n/d, d > 0, in lowest terms.
Frac(n, d) == LET c == Gcd(Abs(n), d) IN <<n \div c, d \div c>>

FAdd(a, b) == Frac(a[1] * b[2] + b[1] * a[2], a[2] * b[2])
FMul(a, b) == Frac(a[1] * b[1], a[2] * b[2])
FDiv(a, b) == Frac(a[1] * b[2], a[2] * b[1])

\* One entry of a float tensor: a number, NaN, or an infinity of sign q[1].
Num(q) == [k |-> "num", q |-> q]
NaN == [k |-> "nan", q |-> <<0, 1>>]
Inf(sign) == [k |-> "inf", q |-> <<sign, 1>>]

\* s * x, s a Python float >= 0.
TScale(s, x) ==
    CASE x.k = "num" -> Num(FMul(s, x.q))
      [] x.k = "nan" -> NaN
      [] x.k = "inf" -> IF s[1] = 0 THEN NaN ELSE x

\* x + y.
TAdd(x, y) ==
    CASE x.k = "nan" \/ y.k = "nan" -> NaN
      [] x.k = "inf" /\ y.k = "inf" -> IF x.q = y.q THEN x ELSE NaN
      [] x.k = "inf" -> x
      [] y.k = "inf" -> y
      [] OTHER -> Num(FAdd(x.q, y.q))

\* x / q for a tensor x and a number q >= 0: a zero divisor raises
\* nothing, it gives NaN or an infinity.
TDivide(x, q) ==
    CASE x.k = "nan" -> NaN
      [] x.k = "inf" -> x
      [] q[1] = 0 -> IF x.q[1] = 0 THEN NaN
                     ELSE IF x.q[1] > 0 THEN Inf(1) ELSE Inf(-1)
      [] OTHER -> Num(FDiv(x.q, q))

Ok(v) == [kind |-> "ok", line |-> 0, val |-> v]
Raise(kind, line) == [kind |-> kind, line |-> line, val |-> <<>>]

Range(f) == {f[x] : x \in DOMAIN f}

\* calk_sim with the denominator taken as the first list's set alone.
calk_sim_first_only(idx, sim_idx, i_dict) ==
    IF idx \notin DOMAIN i_dict THEN Raise("KeyError", 272)
    ELSE IF sim_idx \notin DOMAIN i_dict THEN Raise("KeyError", 273)
    ELSE LET staffs  == i_dict[idx]
             staffs2 == i_dict[sim_idx]
             all     == Cardinality(Range(staffs))
             inter   == Cardinality(Range(staffs) \cap Range(staffs2))
         IN  IF all = 0 THEN Raise("ZeroDivisionError", 276)
             ELSE Ok(Frac(inter, all))

\* calk_sim, lines 271-277.
calk_sim(idx, sim_idx, i_dict) ==
    IF idx \notin DOMAIN i_dict THEN Raise("KeyError", 272)
    ELSE IF sim_idx \notin DOMAIN i_dict THEN Raise("KeyError", 273)
    ELSE LET staffs  == i_dict[idx]
             staffs2 == i_dict[sim_idx]
             all     == Cardinality(Range(staffs) \cup Range(staffs2))
             inter   == Cardinality(Range(staffs) \cap Range(staffs2))
         IN  IF all = 0 THEN Raise("ZeroDivisionError", 276)
             ELSE Ok(Frac(inter, all))

\* torch.sum(embed[list], dim = 0)
RECURSIVE SumRows(_, _, _)
SumRows(embed, list, j) ==
    IF j > Len(list) THEN 0
    ELSE embed[list[j]] + SumRows(embed, list, j + 1)

\* The mean of the rows of a list: sum / len, NaN for the empty list.
MeanRows(embed, list) ==
    TDivide(Num(<<SumRows(embed, list, 1), 1>>), <<Len(list), 1>>)

\* get_user_kg_embed on one id, the np.float64 branch (lines 214-216).
get_user_kg_embed_one(embed, uid, user_dict) ==
    IF uid \notin DOMAIN user_dict THEN Raise("KeyError", 215)
    ELSE Ok(MeanRows(embed, user_dict[uid]))

\* The loop of lines 218-224, from position j of the batch.
RECURSIVE KgLoop(_, _, _, _)
KgLoop(embed, user_ids, user_dict, j) ==
    IF j > Len(user_ids) THEN Ok(<<>>)
    ELSE IF user_ids[j] \notin DOMAIN user_dict THEN Raise("KeyError", 219)
    ELSE LET rest == KgLoop(embed, user_ids, user_dict, j + 1) IN
         IF rest.kind # "ok" THEN rest
         ELSE Ok(<<MeanRows(embed, user_dict[user_ids[j]])>> \o rest.val)

\* get_user_kg_embed on a batch, lines 217-226: None has no view.
get_user_kg_embed(embed, user_ids, user_dict) ==
    LET r == KgLoop(embed, user_ids, user_dict, 1) IN
    IF r.kind = "ok" /\ Len(user_ids) = 0 THEN Raise("AttributeError", 225)
    ELSE r

\* The neighbour loop of get_user_cf_embed, lines 233-236, from position j
\* of the user's neighbour list.  acc is sim_user_embed, norm is norm.
RECURSIVE UserSimLoop(_, _, _, _, _, _, _)
UserSimLoop(embed, uid, nbrs, user_dict, j, acc, norm) ==
    IF j > Len(nbrs) THEN Ok([acc |-> acc, norm |-> norm])
    ELSE LET sim == calk_sim(uid, nbrs[j], user_dict) IN
         IF sim.kind # "ok" THEN sim
         ELSE LET kg == get_user_kg_embed_one(embed, nbrs[j], user_dict) IN
              IF kg.kind # "ok" THEN kg
              ELSE UserSimLoop(embed, uid, nbrs, user_dict, j + 1,
                               TAdd(acc, TScale(sim.val, kg.val)),
                               FAdd(norm, sim.val))

\* The pass with sim_user_embed and norm started as float zeros (lines
\* 231-232): the empty neighbour list then divides 0. by 0. and gives NaN.
UserCfRowFloatInit(embed, uid, user_dict, sim_user_dict) ==
    IF uid \notin DOMAIN sim_user_dict THEN Raise("KeyError", 233)
    ELSE LET r == UserSimLoop(embed, uid, sim_user_dict[uid], user_dict, 1,
                              Num(<<0, 1>>), <<0, 1>>)
         IN  IF r.kind # "ok" THEN r
             ELSE Ok(TDivide(r.val.acc, r.val.norm))

\* The pass with line 237 dividing by the number of neighbours instead of
\* the sum of their weights.
UserCfRowDivByCount(embed, uid, user_dict, sim_user_dict) ==
    IF uid \notin DOMAIN sim_user_dict THEN Raise("KeyError", 233)
    ELSE LET nbrs == sim_user_dict[uid]
             r == UserSimLoop(embed, uid, nbrs, user_dict, 1,
                              Num(<<0, 1>>), <<0, 1>>)
         IN  IF r.kind # "ok" THEN r
             ELSE IF Len(nbrs) = 0 THEN Raise("ZeroDivisionError", 237)
             ELSE Ok(TDivide(r.val.acc, <<Len(nbrs), 1>>))

\* One pass of the batch loop of get_user_cf_embed, lines 231-237: with no
\* neighbour both sim_user_embed and norm are still the integer 0, and
\* 0 / 0 raises; after a neighbour they are a tensor and a float.
UserCfRow(embed, uid, user_dict, sim_user_dict) ==
    IF uid \notin DOMAIN sim_user_dict THEN Raise("KeyError", 233)
    ELSE LET nbrs == sim_user_dict[uid]
             r == UserSimLoop(embed, uid, nbrs, user_dict, 1,
                              Num(<<0, 1>>), <<0, 1>>)
         IN  IF r.kind # "ok" THEN r
             ELSE IF Len(nbrs) = 0 THEN Raise("ZeroDivisionError", 237)
             ELSE Ok(TDivide(r.val.acc, r.val.norm))

RECURSIVE UserCfLoop(_, _, _, _, _)
UserCfLoop(embed, user_ids, user_dict, sim_user_dict, j) ==
    IF j > Len(user_ids) THEN Ok(<<>>)
    ELSE LET row == UserCfRow(embed, user_ids[j], user_dict, sim_user_dict) IN
         IF row.kind # "ok" THEN row
         ELSE LET rest == UserCfLoop(embed, user_ids, user_dict,
                                     sim_user_dict, j + 1) IN
              IF rest.kind # "ok" THEN rest
              ELSE Ok(<<row.val>> \o rest.val)

\* get_user_cf_embed, lines 228-242.
get_user_cf_embed(embed, user_ids, user_dict, sim_user_dict) ==
    LET r == UserCfLoop(embed, user_ids, user_dict, sim_user_dict, 1) IN
    IF r.kind = "ok" /\ Len(user_ids) = 0 THEN Raise("AttributeError", 242)
    ELSE r

\* The neighbour loop of get_item_embed, lines 257-260.
RECURSIVE ItemSimLoop(_, _, _, _, _, _, _)
ItemSimLoop(all_embed, iid, nbrs, item_dict, j, acc, norm) ==
    IF j > Len(nbrs) THEN Ok([acc |-> acc, norm |-> norm])
    ELSE LET sim == calk_sim(iid, nbrs[j], item_dict) IN
         IF sim.kind # "ok" THEN sim
         ELSE ItemSimLoop(all_embed, iid, nbrs, item_dict, j + 1,
                          TAdd(acc, TScale(sim.val,
                                           Num(<<all_embed[nbrs[j]], 1>>))),
                          FAdd(norm, sim.val))

\* One pass of the batch loop of get_item_embed, lines 255-261.
ItemCfRow(all_embed, iid, sim_item_dict, item_dict) ==
    IF iid \notin DOMAIN sim_item_dict THEN Raise("KeyError", 257)
    ELSE LET nbrs == sim_item_dict[iid]
             r == ItemSimLoop(all_embed, iid, nbrs, item_dict, 1,
                              Num(<<0, 1>>), <<0, 1>>)
         IN  IF r.kind # "ok" THEN r
             ELSE IF Len(nbrs) = 0 THEN Raise("ZeroDivisionError", 261)
             ELSE Ok(TDivide(r.val.acc, r.val.norm))

RECURSIVE ItemCfLoop(_, _, _, _, _)
ItemCfLoop(all_embed, item_ids, sim_item_dict, item_dict, j) ==
    IF j > Len(item_ids) THEN Ok(<<>>)
    ELSE LET row == ItemCfRow(all_embed, item_ids[j], sim_item_dict,
                              item_dict) IN
         IF row.kind # "ok" THEN row
         ELSE LET rest == ItemCfLoop(all_embed, item_ids, sim_item_dict,
                                     item_dict, j + 1) IN
              IF rest.kind # "ok" THEN rest
              ELSE Ok(<<row.val>> \o rest.val)

\* get_item_embed, lines 251-269, up to the rows handed to item_encoder:
\* row j is <<the item's own embedding, its neighbours' weighted mean>>.
get_item_embed(all_embed, item_ids, sim_item_dict, item_dict) ==
    LET r == ItemCfLoop(all_embed, item_ids, sim_item_dict, item_dict, 1) IN
    IF r.kind # "ok" THEN r
    ELSE IF Len(item_ids) = 0 THEN Raise("AttributeError", 266)
    ELSE Ok([j \in 1 .. Len(item_ids) |->
                <<Num(<<all_embed[item_ids[j]], 1>>), r.val[j]>>])

NoArgs == [ids |-> <<>>, dict |-> <<>>, sim |-> <<>>, embed |-> <<>>]

CallCalkSim(idx, sim_idx, i_dict) ==
    /\ fop = "none"
    /\ fop' = "calk_sim"
    /\ fargs' = [ids |-> <<idx, sim_idx>>, dict |-> i_dict,
                 sim |-> <<>>, embed |-> <<>>]
    /\ fres' = calk_sim(idx, sim_idx, i_dict)
    /\ UNCHANGED modelVars

CallGetUserKgEmbed(embed, user_ids, user_dict) ==
    /\ fop = "none"
    /\ fop' = "get_user_kg_embed"
    /\ fargs' = [ids |-> user_ids, dict |-> user_dict,
                 sim |-> <<>>, embed |-> embed]
    /\ fres' = get_user_kg_embed(embed, user_ids, user_dict)
    /\ UNCHANGED modelVars

CallGetUserCfEmbed(embed, user_ids, user_dict, sim_user_dict) ==
    /\ fop = "none"
    /\ fop' = "get_user_cf_embed"
    /\ fargs' = [ids |-> user_ids, dict |-> user_dict,
                 sim |-> sim_user_dict, embed |-> embed]
    /\ fres' = get_user_cf_embed(embed, user_ids, user_dict, sim_user_dict)
    /\ UNCHANGED modelVars

CallGetItemEmbed(all_embed, item_ids, sim_item_dict, item_dict) ==
    /\ fop = "none"
    /\ fop' = "get_item_embed"
    /\ fargs' = [ids |-> item_ids, dict |-> item_dict,
                 sim |-> sim_item_dict, embed |-> all_embed]
    /\ fres' = get_item_embed(all_embed, item_ids, sim_item_dict, item_dict)
    /\ UNCHANGED modelVars

\* The fusion routine has returned or raised; the next call may start.
FusionReturn ==
    /\ fop # "none"
    /\ fop' = "none"
    /\ fargs' = NoArgs
    /\ fres' = [kind |-> "none"]
    /\ UNCHANGED modelVars

NoCall == [kind |-> "none"]

\* The call is over: the caller has the result, and the frame of the call
\* (the graph's local_var copy, its columns) is gone.
Return ==
    /\ pc = "returned"
    /\ pc' = "ready"
    /\ mode' = "none"
    /\ g' = NoGraph /\ att' = <<>> /\ scored' = <<>>
    /\ paths' = <<>>
    /\ result' = NoCall
    /\ UNCHANGED <<aggregation_type, n_layers, n_relations,
                   aggregator_layers, W_r, fusionVars>>

Init ==
    /\ pc = "new"
    /\ aggregation_type = "gcn"
    /\ n_layers = 0
    /\ n_relations = 0
    /\ aggregator_layers = <<>>
    /\ W_r = NoProjection
    /\ mode = "none"
    /\ g = NoGraph
    /\ att = <<>>
    /\ scored = <<>>
    /\ paths = <<>>
    /\ result = NoCall
    /\ fop = "none"
    /\ fargs = NoArgs
    /\ fres = NoCall

\* The graphs of at most one edge.
SmallGraphs == {graph \in Graphs : Len(graph) <= 1}

Next ==
    \/ \E type \in SchemeNames, layers \in 0 .. MaxLayers, rels \in 0 .. MaxRel :
          Construct(type, layers, rels)
    \/ /\ pc = "ready"
       /\ \E graph \in SmallGraphs, c \in BOOLEAN : ForwardCalcAtt(graph, c)
    \/ ForwardCalcCfLoss
    \/ ForwardCalcKgLoss
    \/ ForwardPredict
    \/ ForwardOther
    \/ Return

\* The life of a model: construction under any configuration, then forward
\* calls; calc_att here runs on the graphs of at most one edge.
Spec == Init /\ [][Next]_vars

\* The state KGAT.__init__ leaves: one bi-interaction layer, rels
\* relations, W_r not yet assigned, no call made.
Constructed(rels) ==
    /\ pc = "ready"
    /\ aggregation_type = "bi-interaction"
    /\ n_layers = 1
    /\ n_relations = rels
    /\ aggregator_layers = BuildLayers(0, 1, "bi-interaction").layers
    /\ W_r = NoProjection
    /\ mode = "none"
    /\ g = NoGraph
    /\ att = <<>>
    /\ scored = <<>>
    /\ paths = <<>>
    /\ result = NoCall
    /\ fop = "none"
    /\ fargs = NoArgs
    /\ fres = NoCall

InitAtt == \E rels \in 0 .. MaxRel : Constructed(rels)

NextAtt ==
    \/ /\ pc = "ready"
       /\ \E graph \in Graphs, c \in BOOLEAN : ForwardCalcAtt(graph, c)
    \/ ForwardCalcCfLoss
    \/ ForwardCalcKgLoss
    \/ ForwardPredict
    \/ ForwardOther
    \/ Return

\* A constructed model and forward calls on every graph within the bounds.
SpecAtt == InitAtt /\ [][NextAtt]_vars

InitFusion == Constructed(MaxRel)

\* calk_sim and get_user_kg_embed on any dictionary of lists within the
\* bounds, repetitions and any order included.
NextSim ==
    \/ /\ fop = "none"
       /\ \E i_dict \in Dicts(Users, Items, MaxList), idx, sim_idx \in Users :
             CallCalkSim(idx, sim_idx, i_dict)
    \/ /\ fop = "none"
       /\ \E embed \in EmbedTables, user_ids \in SeqsUpTo(Users, MaxBatch),
             user_dict \in Dicts(Users, Items, MaxList) :
             CallGetUserKgEmbed(embed, user_ids, user_dict)
    \/ FusionReturn

SpecSim == InitFusion /\ [][NextSim]_vars

\* get_user_cf_embed and get_item_embed on any batch and any neighbour
\* lists within the bounds; the interaction lists are the increasing ones.
NextCf ==
    \/ /\ fop = "none"
       /\ \E embed \in EmbedTables, user_ids \in SeqsUpTo(Users, MaxBatch),
             user_dict \in SetDicts(Users, Items),
             sim_user_dict \in Dicts(Users, Users, MaxNbrs) :
             CallGetUserCfEmbed(embed, user_ids, user_dict, sim_user_dict)
    \/ /\ fop = "none"
       /\ \E all_embed \in EmbedTables, item_ids \in SeqsUpTo(Items, MaxBatch),
             sim_item_dict \in Dicts(Items, Items, MaxNbrs),
             item_dict \in SetDicts(Items, Users) :
             CallGetItemEmbed(all_embed, item_ids, sim_item_dict, item_dict)
    \/ FusionReturn

SpecCf == InitFusion /\ [][NextCf]_vars

----------------------------------------------------------------------------
(* Properties of the attention scorer, SpecAtt.                            *)

InEdges(graph, n) == {e \in DOMAIN graph : graph[e].dst = n}

\* The sum of the fractions w[e], e in S, as a fraction.
RECURSIVE FracSum(_, _)
FracSum(S, w) ==
    IF S = {} THEN <<0, 1>>
    ELSE LET x == CHOOSE y \in S : TRUE
             r == FracSum(S \ {x}, w)
         IN  <<w[x][1] * r[2] + r[1] * w[x][2], w[x][2] * r[2]>>

AttReturned == pc = "returned" /\ mode = "calc_att" /\ result.kind = "att"

\* C1: when compute_attention returns the weights of a graph, the weights
\* of the edges into any node that has an incoming edge sum to 1.
C1_WeightsSumToOne ==
    AttReturned =>
        \A n \in Nodes :
            InEdges(g, n) # {} =>
                LET s == FracSum(InEdges(g, n), result.val)
                IN  s[2] > 0 /\ s[1] = s[2]

\* A node with two incoming edges of different labels, one of them scored
\* and one left at the column's zero.
C1_Witness ==
    /\ AttReturned
    /\ \E n \in Nodes : \E e1, e2 \in InEdges(g, n) :
          /\ e1 # e2
          /\ g[e1].type < n_relations
          /\ g[e2].type >= n_relations

\* C9: after the relation loop, every edge whose label is below
\* n_relations has been scored exactly once, with the projection and the
\* relation embedding of its own label; no other edge has been scored.
C9_OwnProjection ==
    (pc = "returned" /\ mode = "calc_att") =>
        \A e \in DOMAIN g :
            IF g[e].type \in 0 .. (n_relations - 1)
            THEN /\ scored[e] = 1
                 /\ att[e] = <<[W |-> <<g[e].type>>, r |-> g[e].type,
                                t |-> g[e].src, h |-> g[e].dst]>>
            ELSE scored[e] = 0 /\ att[e] = <<>>

\* Two edges of different labels, both below n_relations, the later label
\* on the earlier edge.
C9_Witness ==
    /\ pc = "returned" /\ mode = "calc_att"
    /\ Len(g) >= 2
    /\ g[1].type < n_relations /\ g[2].type < g[1].type

ModelFields ==
    <<aggregation_type, n_layers, n_relations, aggregator_layers>>

\* C10 as stated: no forward call changes any field of the model.
C10_ForwardChangesNothing ==
    [][pc = "ready" => <<ModelFields, W_r>>' = <<ModelFields, W_r>>]_vars

\* C10 amended: a forward call changes no field but W_r; calc_att alone
\* changes W_r, leaving it at the last relation's projection; and what
\* calc_att returns is what it returns on a model whose W_r was never set.
C10_OnlyCalcAttMovesW_r ==
    [][pc = "ready" =>
         /\ ModelFields' = ModelFields
         /\ mode' # "calc_att" => W_r' = W_r
         /\ mode' = "calc_att" =>
               /\ W_r' = IF n_relations = 0 THEN W_r
                                            ELSE <<n_relations - 1>>
               /\ \E c \in BOOLEAN :
                     result' = compute_attention(g', NoProjection,
                                                 n_relations, c).result
      ]_vars

\* A calc_kg_loss call made after a calc_att call has set W_r.
C10_Witness ==
    pc = "returned" /\ mode = "calc_kg_loss" /\ W_r # NoProjection

----------------------------------------------------------------------------
(* Properties of construction and of the reduction path, Spec.             *)

SupportedSchemes == {"gcn", "graphsage", "bi-interaction"}

\* C4: a model whose scheme name is not one of the three is never
\* constructed: construction fails.
C4_UnknownSchemeFails ==
    (pc # "new" /\ aggregation_type \notin SupportedSchemes) => pc = "failed"

\* C8: a predict call runs every layer on the deterministic reduction, a
\* calc_cf_loss call runs every layer on the fast one.
C8_PathByMode ==
    pc = "returned" =>
        /\ mode = "predict" =>
              /\ Len(paths) = n_layers
              /\ \A k \in DOMAIN paths : paths[k] = "deterministic"
        /\ mode = "calc_cf_loss" =>
              /\ Len(paths) = n_layers
              /\ \A k \in DOMAIN paths : paths[k] = "fast"

\* A predict call on a model of at least two layers.
C8_Witness ==
    pc = "returned" /\ mode = "predict" /\ Len(paths) >= 2

----------------------------------------------------------------------------
(* Properties of calk_sim and get_user_kg_embed, SpecSim.                  *)

SimCalled == fop = "calk_sim"

BothPresent ==
    fargs.ids[1] \in DOMAIN fargs.dict /\ fargs.ids[2] \in DOMAIN fargs.dict

\* C2: for two ids of the dictionary, calk_sim gives the same outcome with
\* its two ids exchanged, and an id with a non-empty list has similarity 1
\* to itself.
C2_Symmetric ==
    (SimCalled /\ BothPresent) =>
        /\ fres = calk_sim(fargs.ids[2], fargs.ids[1], fargs.dict)
        /\ (fargs.ids[1] = fargs.ids[2] /\ fargs.dict[fargs.ids[1]] # <<>>)
              => fres = Ok(<<1, 1>>)

\* Two different ids whose lists overlap in part: a similarity strictly
\* between 0 and 1.
C2_Witness ==
    /\ SimCalled /\ BothPresent
    /\ fargs.ids[1] # fargs.ids[2]
    /\ fres.kind = "ok" /\ fres.val[1] > 0 /\ fres.val[1] < fres.val[2]

\* C3: calk_sim returns |intersection| / |union| of the two lists' sets,
\* and 0 when the union is empty.
C3_ZeroOnEmptyUnion ==
    (SimCalled /\ BothPresent) =>
        LET a == Range(fargs.dict[fargs.ids[1]])
            b == Range(fargs.dict[fargs.ids[2]])
        IN  fres = IF a \cup b = {} THEN Ok(<<0, 1>>)
                   ELSE Ok(Frac(Cardinality(a \cap b), Cardinality(a \cup b)))

KgCalled == fop = "get_user_kg_embed"

LookupErrors == {"KeyError", "IndexError"}

\* C5: get_user_kg_embed raises a LookupError when an id of the batch is
\* missing from the dictionary or has an empty list.
C5_LookupErrorOnEmpty ==
    (KgCalled /\ \E j \in DOMAIN fargs.ids :
                    \/ fargs.ids[j] \notin DOMAIN fargs.dict
                    \/ fargs.dict[fargs.ids[j]] = <<>>)
        => fres.kind \in LookupErrors

----------------------------------------------------------------------------
(* Properties of get_user_cf_embed and get_item_embed, SpecCf.             *)

UserCfCalled == fop = "get_user_cf_embed"
CfCalled == fop \in {"get_user_cf_embed", "get_item_embed"}

\* The neighbour list of the id at position j of the batch.
NbrsAt(j) == fargs.sim[fargs.ids[j]]

\* The positions of the batch whose id has an empty neighbour list.
EmptyAt ==
    {j \in DOMAIN fargs.ids :
        fargs.ids[j] \in DOMAIN fargs.sim /\ NbrsAt(j) = <<>>}

FirstEmpty == CHOOSE j \in EmptyAt : \A k \in EmptyAt : j <= k

\* Position i of the batch looks up a key that a dictionary lacks.
MissingKeyAt(i) ==
    \/ fargs.ids[i] \notin DOMAIN fargs.sim
    \/ /\ fargs.ids[i] \in DOMAIN fargs.sim
       /\ NbrsAt(i) # <<>>
       /\ \/ fargs.ids[i] \notin DOMAIN fargs.dict
          \/ \E n \in Range(NbrsAt(i)) : n \notin DOMAIN fargs.dict

\* Position i of the batch compares two ids whose lists are both empty.
EmptyUnionAt(i) ==
    /\ fargs.ids[i] \in DOMAIN fargs.sim
    /\ fargs.ids[i] \in DOMAIN fargs.dict
    /\ fargs.dict[fargs.ids[i]] = <<>>
    /\ \E n \in Range(NbrsAt(i)) :
          n \in DOMAIN fargs.dict /\ fargs.dict[n] = <<>>

NormLine == IF fop = "get_user_cf_embed" THEN 237 ELSE 261

\* C6 as stated: an id of the batch with an empty neighbour list makes the
\* call raise an ArithmeticError.
C6_EmptyNbrsRaiseArithmetic ==
    (CfCalled /\ EmptyAt # {}) => fres.kind = "ZeroDivisionError"

\* C6 amended: such a call raises and returns no embedding; it raises the
\* zero normaliser's ZeroDivisionError at the first such id unless an
\* earlier id of the batch has raised already, a KeyError for a missing key
\* or calk_sim's ZeroDivisionError for two empty lists.
C6_EmptyNbrsRaise ==
    (CfCalled /\ EmptyAt # {}) =>
        LET before == 1 .. (FirstEmpty - 1) IN
        /\ fres.kind \in {"ZeroDivisionError", "KeyError"}
        /\ fres.kind = "KeyError" => \E i \in before : MissingKeyAt(i)
        /\ (fres.kind = "ZeroDivisionError" /\ fres.line # NormLine)
              => (fres.line = 276 /\ \E i \in before : EmptyUnionAt(i))
        /\ (\A i \in before : ~MissingKeyAt(i) /\ ~EmptyUnionAt(i))
              => fres = Raise("ZeroDivisionError", NormLine)

\* A batch of two whose first id is computed and whose second id has no
\* neighbour.
C6_Witness ==
    /\ UserCfCalled
    /\ Len(fargs.ids) = 2
    /\ EmptyAt = {2}
    /\ fres = Raise("ZeroDivisionError", 237)

\* Position j of the batch has exactly one neighbour, and both ids are in
\* the interaction dictionary.
OneNbrAt(j) ==
    /\ fargs.ids[j] \in DOMAIN fargs.sim
    /\ Len(NbrsAt(j)) = 1
    /\ fargs.ids[j] \in DOMAIN fargs.dict
    /\ NbrsAt(j)[1] \in DOMAIN fargs.dict

SharedAt(j) ==
    Range(fargs.dict[fargs.ids[j]]) \cap Range(fargs.dict[NbrsAt(j)[1]])

\* The neighbour's KG-context embedding: the mean of its items' rows.
NbrKgAt(j) ==
    LET list == fargs.dict[NbrsAt(j)[1]] IN
    Num(Frac(SumRows(fargs.embed, list, 1), Len(list)))

====
